---- MODULE Spec2Model ----
(***************************************************************************)
(* A model of soopercool/map_utils.py: the pixelisation-agnostic map       *)
(* helpers.  A state is what a caller of the module can observe: the array *)
(* it passes in (`map`), the map file on disk (`files`), the outcome of    *)
(* the last call (`out`: error raised, value returned, library routines    *)
(* called, in order), the number of rescaling writes the array has been    *)
(* through (`nconv`), the last two results of the resolution utility on    *)
(* HEALPix maps (`lmaxLog`) and the array and flags of the last write that *)
(* reached the file (`lastWrite`).                                          *)
(*                                                                         *)
(* Conventions.                                                            *)
(*  - An optional value (Python None or a value) is a set with at most one *)
(*    element: {} is None.  An error is an optional record [type, msg].    *)
(*  - An array is [pix, shape, cdelt, vals, exp]: `pix` is the container   *)
(*    ("hp": a plain ndarray; "car": an ndmap with a geometry), `shape`    *)
(*    its shape, `cdelt` the pixel spacing of its geometry (<<>> for a     *)
(*    plain array), `vals` one representative pixel value per component    *)
(*    and `exp` the number of factors 1e-6 applied to those values, so the *)
(*    array's value is vals * (1e-6)^exp.                                  *)
(*  - A library routine is modelled by the record of its call and, where   *)
(*    a claim needs it, by its documented result.                          *)
(***************************************************************************)
EXTENDS Integers, Sequences, FiniteSets, TLC

VARIABLES map, files, out, nconv, lmaxLog, lastWrite

vars == <<map, files, out, nconv, lmaxLog, lastWrite>>

(* ------------------------------ bounds -------------------------------- *)

\* Largest HEALPix resolution parameter of a caller's map.
MaxNside == 2
\* Largest representative pixel value of a caller's map.
MaxVal == 2
\* Largest number of in-place rescalings of one array.
MaxConv == 2
\* Number of pixels of the strip a grid mask is laid on.
MaskLen == 4

(* ------------------------------ inputs -------------------------------- *)

\* The tags a caller may pass: the two recognised ones and two others.
Tags == {"hp", "car", "cea", "HP"}

ValidTags == {"hp", "car"}

\* HEALPix pixel count of a resolution parameter.
Npix(nside) == 12 * nside * nside

\* Component values of an array with n leading components.
CompVals(v, n) == [i \in 1..n |-> v + i - 1]

\* The arrays a caller may hold: 1-D and 3-component HEALPix arrays, and
\* 2-D and 3-component grid maps with their geometry.
HpMaps ==
    {[pix |-> "hp", shape |-> <<Npix(n)>>, cdelt |-> <<>>,
      vals |-> CompVals(v, 1), exp |-> 0] : n \in 1..MaxNside, v \in 1..MaxVal}
    \cup
    {[pix |-> "hp", shape |-> <<3, Npix(n)>>, cdelt |-> <<>>,
      vals |-> CompVals(v, 3), exp |-> 0] : n \in 1..MaxNside, v \in 1..MaxVal}

CarMaps ==
    {[pix |-> "car", shape |-> <<2, 3>>, cdelt |-> <<-2, 2>>,
      vals |-> CompVals(v, 1), exp |-> 0] : v \in 1..MaxVal}
    \cup
    {[pix |-> "car", shape |-> <<3, 3, 4>>, cdelt |-> <<-1, 3>>,
      vals |-> CompVals(v, 3), exp |-> 0] : v \in 1..MaxVal}

Maps == HpMaps \cup CarMaps

\* The caller tracks the tag of its arrays and files (spec section 3): a
\* recognised tag is passed only with a container of that kind.
Consistent(pix_type, pix) == pix_type \in ValidTags => pix_type = pix

Last(s) == s[Len(s)]

Min(S) == CHOOSE x \in S : \A y \in S : x <= y

Abs(x) == IF x < 0 THEN -x ELSE x

(* ------------------------------ errors -------------------------------- *)

NoErr == {}

Raise(type, msg) == {[type |-> type, msg |-> msg]}

\* The outcome of a call: the error raised (if any), the value returned (if
\* any), the library calls made in order, and the caller's array and the
\* file system as the call leaves them.
Outcome(err, ret, calls, m, f) ==
    [err |-> err, ret |-> ret, calls |-> calls, map |-> m, files |-> f]

(* --------------------------- pixelisation guard ----------------------- *)

\* The guard with a case-insensitive test.
_check_pix_type_anycase(pix_type) ==
    IF ~(pix_type \in {"hp", "car", "HP", "CAR"})
    THEN Raise("ValueError", <<"Unknown pixelisation type ", pix_type, ".">>)
    ELSE NoErr

_check_pix_type(pix_type) ==
    IF ~(pix_type \in {"hp", "car"})
    THEN Raise("ValueError", <<"Unknown pixelisation type ", pix_type, ".">>)
    ELSE NoErr

(* ------------------------------- ud_grade ----------------------------- *)

\* healpy.ud_grade: the map resampled to nside_out (its values are the
\* library's business; the shape is new).
hp_ud_grade(map_in, nside_out, power) ==
    [map_in EXCEPT !.shape[Len(map_in.shape)] = Npix(nside_out)]

\* ud_grade behind the pixelisation guard instead of its own test.
ud_grade_guarded(map_in, nside_out, power, pix_type, f) ==
    IF _check_pix_type(pix_type) # NoErr
    THEN Outcome(_check_pix_type(pix_type), {}, <<>>, map_in, f)
    ELSE Outcome(NoErr, {hp_ud_grade(map_in, nside_out, power)},
                 <<[fn |-> "hp.ud_grade", map |-> map_in,
                    nside_out |-> nside_out, power |-> power]>>,
                 map_in, f)

ud_grade(map_in, nside_out, power, pix_type, f) ==
    IF pix_type # "hp"
    THEN Outcome(Raise("ValueError", <<"Can't U/D-grade non-HEALPix maps">>),
                 {}, <<>>, map_in, f)
    ELSE Outcome(NoErr, {hp_ud_grade(map_in, nside_out, power)},
                 <<[fn |-> "hp.ud_grade", map |-> map_in,
                    nside_out |-> nside_out, power |-> power]>>,
                 map_in, f)

(* ----------------------------- lmax_from_map -------------------------- *)

\* healpy.npix2nside: the nside of a pixel count, None when there is none
\* (the library raises).
npix2nside(npix) == {n \in 1..npix : 12 * n * n = npix}

\* pixell.uharm.res2lmax: pi / res, with res in degrees here.
res2lmax(res) == 180 \div res

\* Lines 67-68: the HEALPix branch, on the pixel count it reads.
lmax_hp(npix, m, f) ==
    IF npix2nside(npix) = {}
    THEN Outcome(Raise("ValueError", <<"Wrong pixel number">>), {}, <<>>, m, f)
    ELSE Outcome(NoErr, {3 * (CHOOSE n \in npix2nside(npix) : TRUE) - 1},
                 <<[fn |-> "hp.npix2nside", npix |-> npix]>>, m, f)

\* Lines 70-73: the grid branch.
lmax_car(m, f) ==
    Outcome(NoErr,
            {res2lmax(Min({Abs(m.cdelt[i]) : i \in 1..Len(m.cdelt)}))},
            <<[fn |-> "uharm.res2lmax",
               res |-> Min({Abs(m.cdelt[i]) : i \in 1..Len(m.cdelt)})]>>,
            m, f)

\* lmax_from_map reading the first axis of the shape instead of the last.
lmax_from_map_firstaxis(m, pix_type, f) ==
    IF _check_pix_type(pix_type) # NoErr
    THEN Outcome(_check_pix_type(pix_type), {}, <<>>, m, f)
    ELSE IF pix_type = "hp"
    THEN lmax_hp(m.shape[1], m, f)
    ELSE lmax_car(m, f)

lmax_from_map(m, pix_type, f) ==
    IF _check_pix_type(pix_type) # NoErr
    THEN Outcome(_check_pix_type(pix_type), {}, <<>>, m, f)
    ELSE IF pix_type = "hp"
    THEN lmax_hp(Last(m.shape), m, f)
    ELSE lmax_car(m, f)

(* ------------------------------ read / write -------------------------- *)

\* The map files a caller names.
Paths == {"map.fits"}

\* The unit factors of lines 130 and 160, as the change of `exp` they make:
\* 1e6 removes one factor 1e-6, 1e-6 adds one.
Scale(m, dexp) == [m EXCEPT !.exp = @ + dexp]

\* healpy.write_map(..., overwrite=True): one column per component.
hp_write_map(m, dtype) ==
    [fmt |-> "hp", shape |-> m.shape, cdelt |-> m.cdelt, vals |-> m.vals,
     exp |-> m.exp, dtype |-> dtype]

\* pixell.enmap.write_map: the array and its geometry.
enmap_write_map(m) ==
    [fmt |-> "car", shape |-> m.shape, cdelt |-> m.cdelt, vals |-> m.vals,
     exp |-> m.exp, dtype |-> {}]

\* Line 133: the keyword arguments, {"field": fields_hp} or none.  Without
\* one healpy.read_map reads its default field=0: the first column alone.
hp_field(kwargs) == IF kwargs = {} THEN <<0>> ELSE CHOOSE t \in kwargs : TRUE

\* healpy.read_map(file, **kwargs): the columns the field names, as a 1-D
\* array for one column.
hp_read_map(file, kwargs) ==
    LET field == hp_field(kwargs)
        npix == Last(file.shape)
    IN  IF \E i \in 1..Len(field) : field[i] + 1 > Len(file.vals)
        THEN [err |-> Raise("IndexError", <<"field out of range">>), m |-> {}]
        ELSE [err |-> NoErr,
              m |-> {[pix |-> "hp",
                      shape |-> IF Len(field) = 1 THEN <<npix>>
                                ELSE <<Len(field), npix>>,
                      cdelt |-> <<>>,
                      vals |-> [i \in 1..Len(field) |-> file.vals[field[i] + 1]],
                      exp |-> file.exp]}]

\* pixell.enmap.read_map(file, geometry=None): the stored map.
enmap_read_map(file, geometry) ==
    [err |-> NoErr,
     m |-> {[pix |-> "car", shape |-> file.shape, cdelt |-> file.cdelt,
             vals |-> file.vals, exp |-> file.exp]}]

\* Lines 132-136: the library read of the named file.
lib_read(f, map_file, pix_type, fields_hp, geometry) ==
    IF f[map_file] = {}
    THEN [err |-> Raise("FileNotFoundError", <<map_file>>), m |-> {}]
    ELSE IF pix_type = "hp"
    THEN hp_read_map(CHOOSE x \in f[map_file] : TRUE, fields_hp)
    ELSE enmap_read_map(CHOOSE x \in f[map_file] : TRUE, geometry)

\* read_map with the factor of line 130 applied whatever the flag.
read_map_conv(map_file, pix_type, fields_hp, convert_K_to_muK, geometry, m, f) ==
    LET conv == -1
        g == _check_pix_type(pix_type)
        r == lib_read(f, map_file, pix_type, fields_hp, geometry)
        call == IF pix_type = "hp"
                THEN [fn |-> "hp.read_map", file |-> map_file,
                      kwargs |-> fields_hp]
                ELSE [fn |-> "enmap.read_map", file |-> map_file,
                      geometry |-> geometry]
    IN  IF g # NoErr THEN Outcome(g, {}, <<>>, m, f)
        ELSE IF r.err # NoErr THEN Outcome(r.err, {}, <<call>>, m, f)
        ELSE Outcome(NoErr, {Scale(CHOOSE x \in r.m : TRUE, conv)},
                     <<call>>, m, f)

read_map(map_file, pix_type, fields_hp, convert_K_to_muK, geometry, m, f) ==
    LET conv == IF convert_K_to_muK THEN -1 ELSE 0
        g == _check_pix_type(pix_type)
        r == lib_read(f, map_file, pix_type, fields_hp, geometry)
        call == IF pix_type = "hp"
                THEN [fn |-> "hp.read_map", file |-> map_file,
                      kwargs |-> fields_hp]
                ELSE [fn |-> "enmap.read_map", file |-> map_file,
                      geometry |-> geometry]
    IN  IF g # NoErr THEN Outcome(g, {}, <<>>, m, f)
        ELSE IF r.err # NoErr THEN Outcome(r.err, {}, <<call>>, m, f)
        ELSE Outcome(NoErr, {Scale(CHOOSE x \in r.m : TRUE, conv)},
                     <<call>>, m, f)

\* write_map rescaling a copy of the array, not the array.
write_map_copy(map_file, m, dtype, pix_type, convert_muK_to_K, f) ==
    LET m1 == IF convert_muK_to_K THEN Scale(m, 1) ELSE m
        g == _check_pix_type(pix_type)
    IN  IF g # NoErr THEN Outcome(g, {}, <<>>, m, f)
        ELSE IF pix_type = "hp"
        THEN Outcome(NoErr, {},
                     <<[fn |-> "hp.write_map", file |-> map_file, map |-> m1,
                        overwrite |-> TRUE, dtype |-> dtype]>>, m,
                     [f EXCEPT ![map_file] = {hp_write_map(m1, dtype)}])
        ELSE Outcome(NoErr, {},
                     <<[fn |-> "enmap.write_map", file |-> map_file,
                        map |-> m1]>>, m,
                     [f EXCEPT ![map_file] = {enmap_write_map(m1)}])

\* Line 160 rescales the caller's array itself, before the guard of line 161.
write_map(map_file, m, dtype, pix_type, convert_muK_to_K, f) ==
    LET m1 == IF convert_muK_to_K THEN Scale(m, 1) ELSE m
        g == _check_pix_type(pix_type)
    IN  IF g # NoErr THEN Outcome(g, {}, <<>>, m1, f)
        ELSE IF pix_type = "hp"
        THEN Outcome(NoErr, {},
                     <<[fn |-> "hp.write_map", file |-> map_file, map |-> m1,
                        overwrite |-> TRUE, dtype |-> dtype]>>, m1,
                     [f EXCEPT ![map_file] = {hp_write_map(m1, dtype)}])
        ELSE Outcome(NoErr, {},
                     <<[fn |-> "enmap.write_map", file |-> map_file,
                        map |-> m1]>>, m1,
                     [f EXCEPT ![map_file] = {enmap_write_map(m1)}])

(* ------------------------------- smooth_map --------------------------- *)

\* The FWHMs, in degrees, a caller smooths with.
Fwhms == {0, 1}

\* Lines 188-192.  The library's argument is kept as the expression the
\* code builds: deg2rad(fwhm) for HEALPix, deg2rad(fwhm / sqrt(8 log 2)) for
\* the grid.
smooth_map(m, fwhm_deg, pix_type, f) ==
    LET g == _check_pix_type(pix_type)
    IN  IF g # NoErr THEN Outcome(g, {}, <<>>, m, f)
        ELSE IF pix_type = "hp"
        THEN Outcome(NoErr, {[smoothed |-> m, fwhm_deg |-> fwhm_deg]},
                     <<[fn |-> "hp.smoothing",
                        arg |-> <<"deg2rad", fwhm_deg>>]>>, m, f)
        ELSE Outcome(NoErr, {[smoothed |-> m, fwhm_deg |-> fwhm_deg]},
                     <<[fn |-> "enmap.smooth_gauss",
                        arg |-> <<"deg2rad", fwhm_deg, "/sqrt(8*log(2))">>]>>,
                     m, f)

(* ---------------------------- template_from_map ----------------------- *)

\* numpy.zeros / enmap.zeros: a zero-filled array of the given shape.
zeros(pix, new_shape, cdelt) ==
    [pix |-> pix, shape |-> new_shape, cdelt |-> cdelt,
     vals |-> [i \in 1..new_shape[1] |-> 0], exp |-> 0]

\* Line 400, `map.shape > 1`: Python 3 does not order a tuple and an int.
shape_gt_int(shape, n) ==
    Raise("TypeError",
          <<"'>' not supported between instances of 'tuple' and 'int'">>)

\* Lines 406-410: the grid branch.
template_car(m, ncomp, f) ==
    Outcome(NoErr,
            {zeros("car",
                   <<ncomp>> \o SubSeq(m.shape, Len(m.shape) - 1, Len(m.shape)),
                   m.cdelt)},
            <<[fn |-> "enmap.zeros"]>>, m, f)

template_from_map(m, ncomp, pix_type, f) ==
    LET g == _check_pix_type(pix_type)
    IN  IF g # NoErr THEN Outcome(g, {}, <<>>, m, f)
        ELSE IF pix_type = "hp"
        THEN Outcome(shape_gt_int(m.shape, 1), {}, <<>>, m, f)
        ELSE template_car(m, ncomp, f)

(* -------------------------------- plot_map ---------------------------- *)

\* The file-name bases and titles a caller plots with.
Bases == {"plot"}

Titles == {"CMB"}

\* Colour-scale limits in the form the docstring gives for ncomp components:
\* [min, max] for one, a list of three [min, max] for three.
LimsFor(ncomp) ==
    IF ncomp = 1 THEN <<-1, 1>> ELSE [i \in 1..ncomp |-> <<-i, i>>]

\* Line 229, `for i in lims(3)`: a list is not callable.
call_list(lims) == Raise("TypeError", <<"'list' object is not callable">>)

\* Lines 231-248: per component, one mollview panel and then one savefig or
\* one show.  Call 2i+1 is the panel of component i, call 2i+2 its output.
hp_panels(m, ncomp, cmap, range_args, file_name, title) ==
    [k \in 1..(2 * ncomp) |->
        LET i == (k - 1) \div 2
        IN  IF k % 2 = 1
            THEN [fn |-> "hp.mollview", comp |-> i, cmap |-> cmap,
                  title |-> title, range |-> range_args[i + 1]]
            ELSE IF file_name # {}
            THEN [fn |-> "plt.savefig", comp |-> i,
                  file |-> IF ncomp = 1
                           THEN (CHOOSE b \in file_name : TRUE) \o ".png"
                           ELSE (CHOOSE b \in file_name : TRUE) \o "_"
                                \o <<"T", "Q", "U">>[i + 1] \o ".png"]
            ELSE [fn |-> "plt.show", comp |-> i]]

_plot_map_hp(m, lims, file_name, title, f) ==
    LET ncomp == IF Len(m.shape) = 2 THEN m.shape[1] ELSE 1
        cmap == IF ncomp = 1 THEN "YlOrRd" ELSE "RdYlBu_r"
        l == CHOOSE x \in lims : TRUE
    IN  IF lims = {}
        THEN Outcome(NoErr, {},
                     hp_panels(m, ncomp, cmap, [i \in 1..ncomp |-> {}],
                               file_name, title), m, f)
        ELSE IF ncomp = 1
        THEN Outcome(NoErr, {},
                     hp_panels(m, ncomp, cmap,
                               <<{[min |-> l[1], max |-> l[2]]}>>,
                               file_name, title), m, f)
        ELSE IF ncomp = 3
        THEN Outcome(call_list(l), {}, <<>>, m, f)
        ELSE Outcome(Raise("UnboundLocalError", <<"range_args">>), {}, <<>>,
                     m, f)

\* Lines 283-300: one enplot.plot call for the whole map, then per component
\* one enplot.write or one enplot.show.
car_panels(m, ncomp, range_args, file_name) ==
    [k \in 1..(ncomp + 1) |->
        LET i == k - 2
        IN  IF k = 1
            THEN [fn |-> "enplot.plot", colorbar |-> TRUE, ticks |-> 10,
                  range |-> range_args]
            ELSE IF file_name # {}
            THEN [fn |-> "enplot.write", comp |-> i,
                  file |-> (CHOOSE b \in file_name : TRUE)
                           \o (IF ncomp # 1
                               THEN "_" \o <<"T", "Q", "U">>[i + 1] ELSE "")
                           \o ".png"]
            ELSE [fn |-> "enplot.show", comp |-> i]]

_plot_map_car(m, lims, file_name, f) ==
    LET ncomp == IF Len(m.shape) = 3 THEN m.shape[1] ELSE 1
        l == CHOOSE x \in lims : TRUE
    IN  IF lims = {}
        THEN Outcome(NoErr, {}, car_panels(m, ncomp, {}, file_name), m, f)
        ELSE IF ncomp = 1
        THEN Outcome(NoErr, {},
                     car_panels(m, ncomp, {[min |-> l[1], max |-> l[2]]},
                                file_name), m, f)
        ELSE IF ncomp = 3
        THEN Outcome(NoErr, {},
                     car_panels(m, ncomp,
                                {[min |-> [i \in 1..ncomp |-> l[i][1]],
                                  max |-> [i \in 1..ncomp |-> l[i][2]]]},
                                file_name), m, f)
        ELSE Outcome(Raise("UnboundLocalError", <<"range_args">>), {}, <<>>,
                     m, f)

plot_map(m, file_name, lims, title, pix_type, f) ==
    LET g == _check_pix_type(pix_type)
    IN  IF g # NoErr THEN Outcome(g, {}, <<>>, m, f)
        ELSE IF pix_type = "hp"
        THEN _plot_map_hp(m, lims, file_name, title, f)
        ELSE _plot_map_car(m, lims, file_name, f)

(* ------------------------------ apodize_mask -------------------------- *)

\* Real values of the taper are fixed-point numbers, One standing for 1.0.
One == 10000

\* 2 * pi in the same fixed point (line 371).
TwoPi == 62832

\* numpy.cos at the multiples of pi/12, in fixed point: cos(k * pi / 12).
CosTab ==
    <<10000, 9659, 8660, 7071, 5000, 2588, 0,
      -2588, -5000, -7071, -8660, -9659, -10000>>

Cos12(k) == IF k % 24 <= 12 THEN CosTab[(k % 24) + 1] ELSE CosTab[25 - (k % 24)]

\* numpy.sin at the multiples of pi/12: sin(x) = cos(x - pi/2).
Sin12(k) == Cos12(k - 6)

\* The masks a caller apodizes: binary strips of MaskLen pixels of one
\* degree, with at least one excluded (zero) pixel.
Masks == {mk \in [1..MaskLen -> {0, 1}] : \E i \in 1..MaskLen : mk[i] = 0}

\* The apodization radii, in degrees (divisors of 12, so that every
\* d / r is a multiple of 1/12), and the taper names a caller passes.
Radii == {1, 2, 3}

ApodTypes == {"C1", "C2", "Smooth"}

\* Lines 360-361: enmap.distance_transform and rad2deg; per pixel, the
\* distance in degrees to the nearest zero pixel.
distance_deg(mask) ==
    [i \in 1..Len(mask) |->
        Min({Abs(i - j) : j \in {x \in 1..Len(mask) : mask[x] = 0}})]

\* Line 364: np.where(distance > apod_radius_deg).
where_gt(distance, apod_radius_deg) ==
    {i \in 1..Len(distance) : distance[i] > apod_radius_deg}

\* Line 367: 0.5 - 0.5 * cos(-pi * distance / apod_radius_deg).
taper_C1(d, r) == (One - Cos12((-12 * d) \div r)) \div 2

\* Lines 369-372: distance / r - sin(2 * pi * distance / r) / (2 * pi).
taper_C2(d, r) ==
    (One * d) \div r - (Sin12((24 * d) \div r) * One) \div TwoPi

\* Line 375, mask_apo[idx] = 1, on the formula's output.
clamp(mask_apo, idx) ==
    [i \in 1..Len(mask_apo) |-> IF i \in idx THEN One ELSE mask_apo[i]]

\* The grid branch without the clamp of line 375.
apodize_car_noclamp(mask, apod_radius_deg, apod_type, m, f) ==
    LET distance == distance_deg(mask)
        call == [fn |-> "enmap.distance_transform"]
    IN  IF apod_type = "C1"
        THEN Outcome(NoErr,
                     {[i \in 1..Len(mask) |->
                           taper_C1(distance[i], apod_radius_deg)]},
                     <<call>>, m, f)
        ELSE IF apod_type = "C2"
        THEN Outcome(NoErr,
                     {[i \in 1..Len(mask) |->
                           taper_C2(distance[i], apod_radius_deg)]},
                     <<call>>, m, f)
        ELSE Outcome(Raise("ValueError",
                           <<"Unknown apodization type ", apod_type>>),
                     {}, <<call>>, m, f)

\* Lines 360-375: the grid branch.
apodize_car(mask, apod_radius_deg, apod_type, m, f) ==
    LET distance == distance_deg(mask)
        idx == where_gt(distance, apod_radius_deg)
        call == [fn |-> "enmap.distance_transform"]
    IN  IF apod_type = "C1"
        THEN Outcome(NoErr,
                     {clamp([i \in 1..Len(mask) |->
                                taper_C1(distance[i], apod_radius_deg)], idx)},
                     <<call>>, m, f)
        ELSE IF apod_type = "C2"
        THEN Outcome(NoErr,
                     {clamp([i \in 1..Len(mask) |->
                                taper_C2(distance[i], apod_radius_deg)], idx)},
                     <<call>>, m, f)
        ELSE Outcome(Raise("ValueError",
                           <<"Unknown apodization type ", apod_type>>),
                     {}, <<call>>, m, f)

\* `m` is the caller's map, which the call does not receive.
apodize_mask(mask, apod_radius_deg, apod_type, pix_type, m, f) ==
    LET g == _check_pix_type(pix_type)
    IN  IF g # NoErr THEN Outcome(g, {}, <<>>, m, f)
        ELSE IF pix_type = "hp"
        THEN Outcome(NoErr,
                     {[apodized |-> mask, radius |-> apod_radius_deg,
                       type |-> apod_type]},
                     <<[fn |-> "nmt.mask_apodization"]>>, m, f)
        ELSE apodize_car(mask, apod_radius_deg, apod_type, m, f)

(* -------------------------------- state ------------------------------- *)

\* No call made yet on the caller's current array.
Idle ==
    [op |-> "none", pix_type |-> "", args |-> <<>>, before |-> <<>>,
     err |-> {}, ret |-> {}, calls |-> <<>>]

Init ==
    /\ map \in Maps
    /\ files = [p \in Paths |-> {}]
    /\ out = Idle
    /\ nconv = 0
    /\ lmaxLog = <<>>
    /\ lastWrite = {}

\* The number of leading components of an array, as the caller counts them.
NComp(m) ==
    IF Len(m.shape) = (IF m.pix = "hp" THEN 2 ELSE 3) THEN m.shape[1] ELSE 1

\* A call returns: its outcome becomes observable, beside the array and the
\* files the caller had before it.
Return(op, pix_type, args, o) ==
    /\ out' = [op |-> op, pix_type |-> pix_type, args |-> args,
               before |-> [map |-> map, files |-> files],
               err |-> o.err, ret |-> o.ret, calls |-> o.calls]
    /\ map' = o.map
    /\ files' = o.files

\* The caller turns to another array.
NewMap ==
    /\ map' \in Maps
    /\ out' = Idle
    /\ nconv' = 0
    /\ UNCHANGED <<files, lmaxLog, lastWrite>>

CheckPixTypeWith(T) ==
    \E t \in T :
        /\ Return("_check_pix_type", t, <<>>,
                  Outcome(_check_pix_type(t), {}, <<>>, map, files))
        /\ UNCHANGED <<nconv, lmaxLog, lastWrite>>

UdGradeWith(T) ==
    \E t \in T, nside_out \in 1..MaxNside, power \in {{}, {-2}} :
        /\ Consistent(t, map.pix)
        /\ Return("ud_grade", t,
                  [map |-> map, nside_out |-> nside_out, power |-> power],
                  ud_grade(map, nside_out, power, t, files))
        /\ UNCHANGED <<nconv, lmaxLog, lastWrite>>

LmaxFromMapWith(T) ==
    \E t \in T :
        LET o == lmax_from_map(map, t, files)
        IN  /\ Consistent(t, map.pix)
            /\ Return("lmax_from_map", t, [map |-> map], o)
            /\ lmaxLog' =
                   IF t = "hp" /\ o.err = NoErr
                   THEN SubSeq(<<[npix |-> Last(map.shape), lmax |-> CHOOSE x \in o.ret : TRUE]>>
                               \o lmaxLog, 1, Min({2, Len(lmaxLog) + 1}))
                   ELSE lmaxLog
            /\ UNCHANGED <<nconv, lastWrite>>

ReadMapWith(T) ==
    \E t \in T, map_file \in Paths, fields_hp \in {{}, {<<0, 1, 2>>}},
       convert_K_to_muK \in BOOLEAN :
        /\ \A x \in files[map_file] : Consistent(t, x.fmt)
        /\ Return("read_map", t,
                  [map_file |-> map_file, fields_hp |-> fields_hp,
                   convert_K_to_muK |-> convert_K_to_muK],
                  read_map(map_file, t, fields_hp, convert_K_to_muK, {},
                           map, files))
        /\ UNCHANGED <<nconv, lmaxLog, lastWrite>>

WriteMapWith(T) ==
    \E t \in T, map_file \in Paths, dtype \in {{}, {"float32"}},
       convert_muK_to_K \in BOOLEAN :
        /\ Consistent(t, map.pix)
        /\ convert_muK_to_K => nconv < MaxConv
        /\ Return("write_map", t,
                  [map_file |-> map_file, dtype |-> dtype,
                   convert_muK_to_K |-> convert_muK_to_K],
                  write_map(map_file, map, dtype, t, convert_muK_to_K, files))
        /\ nconv' = IF convert_muK_to_K THEN nconv + 1 ELSE nconv
        /\ lastWrite' =
               IF write_map(map_file, map, dtype, t, convert_muK_to_K,
                            files).err = NoErr
               THEN {[map |-> map, map_file |-> map_file, pix_type |-> t,
                      dtype |-> dtype, convert_muK_to_K |-> convert_muK_to_K]}
               ELSE lastWrite
        /\ UNCHANGED lmaxLog

SmoothMapWith(T) ==
    \E t \in T, fwhm_deg \in Fwhms :
        /\ Consistent(t, map.pix)
        /\ Return("smooth_map", t, [fwhm_deg |-> fwhm_deg],
                  smooth_map(map, fwhm_deg, t, files))
        /\ UNCHANGED <<nconv, lmaxLog, lastWrite>>

PlotMapWith(T) ==
    \E t \in T, file_name \in {{}} \cup {{b} : b \in Bases},
       lims \in {{}, {LimsFor(NComp(map))}},
       title \in {{}} \cup {{x} : x \in Titles} :
        /\ Consistent(t, map.pix)
        /\ Return("plot_map", t,
                  [map |-> map, file_name |-> file_name, lims |-> lims,
                   title |-> title],
                  plot_map(map, file_name, lims, title, t, files))
        /\ UNCHANGED <<nconv, lmaxLog, lastWrite>>

ApodizeMaskWith(T) ==
    \E t \in T, mask \in Masks, apod_radius_deg \in Radii,
       apod_type \in ApodTypes :
        /\ Return("apodize_mask", t,
                  [mask |-> mask, apod_radius_deg |-> apod_radius_deg,
                   apod_type |-> apod_type],
                  apodize_mask(mask, apod_radius_deg, apod_type, t,
                               map, files))
        /\ UNCHANGED <<nconv, lmaxLog, lastWrite>>

TemplateFromMapWith(T) ==
    \E t \in T, ncomp \in 1..3 :
        /\ Consistent(t, map.pix)
        /\ Return("template_from_map", t, [map |-> map, ncomp |-> ncomp],
                  template_from_map(map, ncomp, t, files))
        /\ UNCHANGED <<nconv, lmaxLog, lastWrite>>

\* The tags no operation recognises.
BadTags == Tags \ ValidTags

(* Calls with any tag. *)
CheckPixType == CheckPixTypeWith(Tags)
UdGrade == UdGradeWith(Tags)
LmaxFromMap == LmaxFromMapWith(Tags)
ReadMap == ReadMapWith(Tags)
WriteMap == WriteMapWith(Tags)
SmoothMap == SmoothMapWith(Tags)
PlotMap == PlotMapWith(Tags)
ApodizeMask == ApodizeMaskWith(Tags)
TemplateFromMap == TemplateFromMapWith(Tags)

(* Calls with an unrecognised tag. *)
UdGradeBad == UdGradeWith(BadTags)
LmaxFromMapBad == LmaxFromMapWith(BadTags)
ReadMapBad == ReadMapWith(BadTags)
WriteMapBad == WriteMapWith(BadTags)
SmoothMapBad == SmoothMapWith(BadTags)
PlotMapBad == PlotMapWith(BadTags)
ApodizeMaskBad == ApodizeMaskWith(BadTags)
TemplateFromMapBad == TemplateFromMapWith(BadTags)

\* The guard, the resolution, resampling, smoothing, template and plotting
\* operations on the caller's arrays.
Next ==
    \/ NewMap
    \/ CheckPixType
    \/ UdGrade
    \/ LmaxFromMap
    \/ SmoothMap
    \/ PlotMap
    \/ TemplateFromMap

Spec == Init /\ [][Next]_vars

\* Reading and writing map files.
NextIO ==
    \/ WriteMap
    \/ ReadMap

SpecIO == Init /\ [][NextIO]_vars

\* Apodizing masks.
NextApod == ApodizeMask

\* The mask is an argument of its own: one caller array is enough.
InitApod == Init /\ map = CHOOSE m \in CarMaps : TRUE

SpecApod == InitApod /\ [][NextApod]_vars

\* Every tagged operation, called with an unrecognised tag.
NextGuard ==
    \/ NewMap
    \/ UdGradeBad
    \/ LmaxFromMapBad
    \/ ReadMapBad
    \/ WriteMapBad
    \/ SmoothMapBad
    \/ PlotMapBad
    \/ ApodizeMaskBad
    \/ TemplateFromMapBad

SpecGuard == Init /\ [][NextGuard]_vars

(* ------------------------------- claims ------------------------------- *)

\* The operations that take a pixelisation tag.
TaggedOps ==
    {"ud_grade", "lmax_from_map", "read_map", "write_map", "smooth_map",
     "plot_map", "apodize_mask", "template_from_map"}

\* The value a successful call returned.
Ret == CHOOSE x \in out.ret : TRUE

\* The resolution parameter of a HEALPix pixel count.
NsideOf(npix) == CHOOSE n \in 1..npix : 12 * n * n = npix

\* C1: _check_pix_type returns without raising for the tags 'hp' and 'car',
\* and for every other value raises an error whose message names that value.
C1_GuardContract ==
    out.op = "_check_pix_type" =>
        IF out.pix_type \in {"hp", "car"}
        THEN out.err = {}
        ELSE /\ out.err # {}
             /\ \A e \in out.err :
                    \E i \in 1..Len(e.msg) : e.msg[i] = out.pix_type

\* C1's case: the guard has rejected a tag that differs from 'hp' by case only.
C1_Witness ==
    /\ out.op = "_check_pix_type"
    /\ out.pix_type = "HP"
    /\ out.err = {[type |-> "ValueError",
                   msg |-> <<"Unknown pixelisation type ", "HP", ".">>]}

\* C2: every operation that takes a tag, called with a tag that is neither
\* 'hp' nor 'car', fails with the guard's error before anything else
\* happens: the caller's array and the files are as before the call and no
\* library routine has been called.
C2_GuardFirst ==
    (out.op \in TaggedOps /\ out.pix_type \notin ValidTags) =>
        /\ out.err = {[type |-> "ValueError",
                       msg |-> <<"Unknown pixelisation type ",
                                 out.pix_type, ".">>]}
        /\ map = out.before.map
        /\ files = out.before.files
        /\ out.calls = <<>>

\* The spatial dimensions of an array of the given container.
Spatial(pix, shape) ==
    IF pix = "hp" THEN <<Last(shape)>>
    ELSE SubSeq(shape, Len(shape) - 1, Len(shape))

\* C3: template_from_map, for either tag, every reference map and every
\* ncomp, returns a map with the reference's spatial dimensions, ncomp
\* leading components and all values zero.
C3_Template ==
    (out.op = "template_from_map" /\ out.pix_type \in ValidTags) =>
        /\ out.err = {}
        /\ out.ret # {}
        /\ Spatial(out.pix_type, Ret.shape)
               = Spatial(out.pix_type, out.args.map.shape)
        /\ Len(Ret.shape) = Len(Spatial(out.pix_type, Ret.shape)) + 1
        /\ Ret.shape[1] = out.args.ncomp
        /\ \A i \in 1..Len(Ret.vals) : Ret.vals[i] = 0

\* The colour range component i (from 1) of the last plot was rendered with.
RenderedRange(i) ==
    IF out.pix_type = "hp"
    THEN out.calls[2 * i - 1].range
    ELSE {IF NComp(out.args.map) = 1 THEN r
          ELSE [min |-> r.min[i], max |-> r.max[i]] : r \in out.calls[1].range}

\* The limits the caller asked for component i (from 1).
AskedRange(i) ==
    {IF NComp(out.args.map) = 1 THEN [min |-> l[1], max |-> l[2]]
     ELSE [min |-> l[i][1], max |-> l[i][2]] : l \in out.args.lims}

\* C4: plot_map with colour-scale limits completes without error and
\* renders component i of a 1- or 3-component map with the i-th limits, for
\* both back ends.
C4_PlotLims ==
    (out.op = "plot_map" /\ out.pix_type \in ValidTags
        /\ out.args.lims # {}) =>
        /\ out.err = {}
        /\ \A i \in 1..NComp(out.args.map) :
               RenderedRange(i) = AskedRange(i)

IsSave(c) == c.fn \in {"plt.savefig", "enplot.write"}

IsShow(c) == c.fn \in {"plt.show", "enplot.show"}

\* The image files the last plot wrote, in order.
Saved ==
    LET w == SelectSeq(out.calls, IsSave)
    IN  [i \in 1..Len(w) |-> w[i].file]

\* The file names the claim gives for a base and a number of components.
ExpectedFiles(base, ncomp) ==
    IF ncomp = 1 THEN <<base \o ".png">>
    ELSE <<base \o "_T.png", base \o "_Q.png", base \o "_U.png">>

\* C5: plot_map given a file_name writes exactly '{base}.png' for a
\* 1-component map and '{base}_T.png', '{base}_Q.png', '{base}_U.png' in
\* that order for a 3-component map, and shows nothing; given no file_name
\* it writes nothing and shows each component.  For both tags.
C5_PlotFiles ==
    (out.op = "plot_map" /\ out.pix_type \in ValidTags) =>
        /\ out.err = {}
        /\ \A b \in out.args.file_name :
               /\ Saved = ExpectedFiles(b, NComp(out.args.map))
               /\ SelectSeq(out.calls, IsShow) = <<>>
        /\ out.args.file_name = {} =>
               /\ Saved = <<>>
               /\ Len(SelectSeq(out.calls, IsShow)) = NComp(out.args.map)

\* C6: grid apodize_mask with taper C1 or C2: a pixel at distance d >= r
\* from the nearest zero pixel has output exactly 1, a pixel at distance 0
\* has output 0, and a pixel with d < r has the taper formula's value.
C6_Apodize ==
    (out.op = "apodize_mask" /\ out.pix_type = "car"
        /\ out.args.apod_type \in {"C1", "C2"}) =>
        /\ out.err = {}
        /\ out.ret # {}
        /\ \A i \in 1..Len(out.args.mask) :
               LET d == distance_deg(out.args.mask)[i]
                   r == out.args.apod_radius_deg
               IN  /\ d >= r => Ret[i] = One
                   /\ d = 0 => Ret[i] = 0
                   /\ d < r => Ret[i] = IF out.args.apod_type = "C1"
                                        THEN taper_C1(d, r)
                                        ELSE taper_C2(d, r)

\* C6's case: a C1 taper of radius 2 on a strip with pixels at distance 0,
\* inside the radius, at the radius and beyond it.
C6_Witness ==
    /\ out.op = "apodize_mask"
    /\ out.pix_type = "car"
    /\ out.args.apod_type = "C1"
    /\ out.args.apod_radius_deg = 2
    /\ out.err = {}
    /\ \A d \in 0..3 :
           \E i \in 1..Len(out.args.mask) : distance_deg(out.args.mask)[i] = d
    /\ \E i \in 1..Len(out.args.mask) : Ret[i] \notin {0, One}

\* A write and a read of the same path with the same tag, both with their
\* optional arguments at the defaults and no unit conversion.
RoundTrip ==
    /\ out.op = "read_map"
    /\ out.pix_type \in ValidTags
    /\ lastWrite # {}
    /\ \A w \in lastWrite :
           /\ w.map_file = out.args.map_file
           /\ w.pix_type = out.pix_type
           /\ w.dtype = {}
           /\ ~w.convert_muK_to_K
    /\ ~out.args.convert_K_to_muK

Written == (CHOOSE w \in lastWrite : TRUE).map

\* C7: a default-argument round trip returns the values written, for 1- and
\* 3-component maps alike.
C7_RoundTripDefault ==
    (RoundTrip /\ out.args.fields_hp = {}) =>
        /\ out.err = {}
        /\ out.ret # {}
        /\ Ret.vals = Written.vals
        /\ Ret.exp = Written.exp

\* C7, amended: the round trip returns the values written for 'car' maps
\* and for 1-component 'hp' maps; a 3-component 'hp' map comes back whole
\* when fields_hp names its three fields (0, 1, 2), and with the default
\* fields_hp only its first component comes back.
C7_RoundTrip ==
    RoundTrip =>
        /\ (out.pix_type = "car" \/ NComp(Written) = 1) =>
               (out.args.fields_hp = {} =>
                   /\ out.err = {}
                   /\ out.ret # {}
                   /\ Ret.vals = Written.vals
                   /\ Ret.exp = Written.exp)
        /\ (out.pix_type = "hp" /\ NComp(Written) = 3) =>
               /\ out.err = {}
               /\ out.ret # {}
               /\ Ret.exp = Written.exp
               /\ out.args.fields_hp = {<<0, 1, 2>>} =>
                      Ret.vals = Written.vals
               /\ out.args.fields_hp = {} => Ret.vals = <<Written.vals[1]>>

\* C7's case: a 3-component 'hp' map written and read back with the defaults.
C7_Witness ==
    /\ RoundTrip
    /\ out.pix_type = "hp"
    /\ NComp(Written) = 3
    /\ out.args.fields_hp = {}
    /\ out.err = {}
    /\ Len(Ret.vals) = 1

\* C8: lmax_from_map with tag 'hp' returns 3 * nside - 1 for the nside of
\* the map's last axis, whatever the number of leading components, and the
\* result is strictly increasing in nside.
C8_LmaxHp ==
    /\ (out.op = "lmax_from_map" /\ out.pix_type = "hp") =>
           /\ out.err = {}
           /\ out.ret = {3 * NsideOf(Last(out.args.map.shape)) - 1}
    /\ \A i, j \in 1..Len(lmaxLog) :
           NsideOf(lmaxLog[i].npix) < NsideOf(lmaxLog[j].npix)
               => lmaxLog[i].lmax < lmaxLog[j].lmax

\* C8's case: results for two resolutions, the last one on a 3-component map.
C8_Witness ==
    /\ out.op = "lmax_from_map"
    /\ out.pix_type = "hp"
    /\ Len(out.args.map.shape) = 2
    /\ out.err = {}
    /\ Len(lmaxLog) = 2
    /\ NsideOf(lmaxLog[2].npix) < NsideOf(lmaxLog[1].npix)

\* C9: ud_grade with tag 'hp' delegates to the resample routine with
\* nside_out and power as given; with tag 'car' it raises, calls no
\* library routine and leaves the input map as it was.
C9_UdGrade ==
    out.op = "ud_grade" =>
        /\ out.pix_type = "hp" =>
               /\ out.err = {}
               /\ out.calls = <<[fn |-> "hp.ud_grade",
                                 map |-> out.args.map,
                                 nside_out |-> out.args.nside_out,
                                 power |-> out.args.power]>>
        /\ out.pix_type = "car" =>
               /\ out.err # {}
               /\ out.calls = <<>>
               /\ out.ret = {}
               /\ map = out.before.map

\* C9's case: ud_grade has refused a grid map.
C9_Witness ==
    /\ out.op = "ud_grade"
    /\ out.pix_type = "car"
    /\ out.args.map.pix = "car"
    /\ out.err # {}

\* C10: write_map with convert_muK_to_K=True rescales the caller's array in
\* place by 1e-6, once more on every such call (after n calls the array is
\* scaled by 1e-6 to the power n, and the file just written holds those
\* values); with convert_muK_to_K=False it leaves the array as it was; and
\* read_map never changes the caller's array.
C10_InPlace ==
    /\ map.exp = nconv
    /\ out.op = "write_map" =>
           /\ out.args.convert_muK_to_K =>
                  map = [out.before.map EXCEPT !.exp = @ + 1]
           /\ ~out.args.convert_muK_to_K => map = out.before.map
           /\ out.err = {} =>
                  \A x \in files[out.args.map_file] :
                      x.vals = map.vals /\ x.exp = map.exp
    /\ out.op = "read_map" => map = out.before.map

\* C10's case: the second rescaling write of one array has reached the file.
C10_Witness ==
    /\ out.op = "write_map"
    /\ out.args.convert_muK_to_K
    /\ out.err = {}
    /\ nconv = 2
    /\ map.exp = 2
    /\ \E x \in files[out.args.map_file] : x.exp = 2

====
